---------------------------- MODULE Spec2Model ----------------------------
(***************************************************************************)
(* The duplex audio session manager of src/services/liveClient.ts          *)
(* (class LiveClient) together with the caller in src/App.tsx that owns    *)
(* the reported connection state.                                          *)
(*                                                                         *)
(* One LiveClient object is modelled: App.connectToGemini builds a new     *)
(* object for every connection attempt (App.tsx:125) and calls connect()   *)
(* on it once.  JavaScript runs every callback to its next await without   *)
(* interleaving, so one action is the code between two suspension points.  *)
(* Time is the output AudioContext's currentTime in whole ticks.           *)
(***************************************************************************)
EXTENDS Integers, Sequences, FiniteSets

\* ------------------------------------------------------------- bounds
MaxClock == 2
MaxMsgs == 2
MaxFrames == 2
MaxToggles == 2
MaxDisconnects == 2
MaxErrors == 1
\* connect() calls, over all LiveClient objects
MaxConnects == 2

\* ------------------------------------------------- program constants
\* rms > 0.01 (liveClient.ts:336), in thousandths
NoiseFloor == 10
\* rms * 5 (liveClient.ts:336)
Gain == 5

\* capture loudness (rms, thousandths) of the frames the device delivers:
\* silence, speech, and a loud frame
RmsLevels == {0, 100, 300}
\* durations, in ticks, of the audio chunks the remote sends
Durations == {1, 2}
\* numbers of function calls one inbound message carries
CallCounts == {0, 1, 2}
\* what the handler of one function call does: it resolves with a value, or
\* rejects with an error carrying a message, or with one carrying none
Outcomes == {[ok |-> TRUE, val |-> "r"], [ok |-> FALSE, val |-> "boom"],
             [ok |-> FALSE, val |-> ""]}

VARIABLES
    \* ---- LiveClient fields (liveClient.ts:111-121)
    sessionPromise,       \* "null" | "pending" | "resolved" | "rejected"
    inputAudioContext,    \* "null" | "running" | "closing"
    outputAudioContext,   \* "null" | "running" | "closing"
    stream,               \* "null" | "live"
    processor,            \* "null" | "active"
    source,               \* "null" | "connected"
    nextStartTime,        \* playback cursor
    activeSources,        \* set of handles (indices of chunks)
    isMuted,
    \* ---- suspended calls
    pcConnect,            \* connect(): "idle" | "awaitMedia" | "done" | "failed"
    disc,                 \* last disconnect(): [pc, via, from, released]
    msgs,                 \* handleMessage invocations, in arrival order
    \* ---- App.tsx
    status,               \* connectionState (App.tsx:52)
    clientRef,            \* liveClientRef.current is set (App.tsx:63)
    \* ---- environment and observations
    chan,                 \* remote channel: "none" | "opening" | "open" | "closing" | "closed"
    oldChan,              \* channel of the previous LiveClient object: "none" | "closing" | "closed"
    clock,                \* outputAudioContext.currentTime
    chunks,               \* every source.start() made, in order
    epoch,                \* interruptions processed so far
    toolResponses,        \* every session.sendToolResponse() made, in order
    frames,               \* every onaudioprocess event, in order
    sentFrames,           \* every session.sendRealtimeInput() made, in order
    audioLevels,          \* every onAudioData() made, in order
    statusHist,           \* every onStatusChange() of the client, in order
    errors,               \* onError() calls, by origin
    logCount,             \* onLog() calls, by message
    deviceTracks,         \* capture device tracks acquired and not stopped
    teardownOps,          \* stop/close/disconnect operations performed by disconnect()
    toggles,              \* setMute calls made
    discCalls,            \* disconnect() calls made
    thrown,               \* the value the try block of connect() throws when it fails
    reports               \* what each run of the catch block of connect() handed to onError and onLog

clientVars == <<sessionPromise, inputAudioContext, outputAudioContext, stream,
                processor, source, nextStartTime, activeSources, isMuted>>
vars == <<sessionPromise, inputAudioContext, outputAudioContext, stream,
          processor, source, nextStartTime, activeSources, isMuted,
          pcConnect, disc, msgs, status, clientRef, chan, oldChan, clock, chunks,
          epoch, toolResponses, frames, sentFrames, audioLevels, statusHist, errors, logCount,
          deviceTracks, teardownOps, toggles, discCalls, thrown, reports>>

LogKinds == {"executing", "toolFailure", "interrupted", "online", "offline",
             "aborted", "protocolError"}

IdleDisc == [pc |-> "idle", via |-> "none", from |-> "none", released |-> FALSE]

Max(a, b) == IF a >= b THEN a ELSE b

\* ---------------------------------------------- connect-failure message
\* the texts the catch block of connect() looks for (lines 179-181)
Patterns == {"403", "503", "Failed to fetch"}

\* a string, as far as the catch block can tell strings apart: its text,
\* and which of the patterns occur in it
Str(text, marks) == [text |-> text, marks |-> marks]

\* String.prototype.includes
Includes(str, pat) == pat \in str.marks

\* the literals of lines 175 and 179-181; none contains a pattern
UnknownError == Str("Unknown Connection Protocol Error", {})
AccessDenied == Str("ACCESS DENIED: Invalid API Key or Permissions.", {})
ServiceUnavailable == Str("SERVICE UNAVAILABLE: Server Overload.", {})
NetworkFailure == Str("NETWORK FAILURE: Unable to reach command servers.", {})

\* the values a failing try block may throw: an Error whose message holds any
\* combination of the patterns, or a value that is not an Error
Thrown ==
    {[isError |-> TRUE, message |-> Str("message", marks)] : marks \in SUBSET Patterns}
        \cup {[isError |-> FALSE, message |-> Str("message", marks)] : marks \in {{}, {"403"}}}

\* the rejection of getUserMedia when the device is refused
DeniedError == [isError |-> TRUE, message |-> Str("message", {})]

\* a categorisation in which every test reads the Error's own message
ErrorMessageFromOriginal(error) ==
    LET m1 == error.message
        m2 == IF Includes(m1, "403") THEN AccessDenied ELSE m1
        m3 == IF Includes(m1, "503") THEN ServiceUnavailable ELSE m2
        m4 == IF Includes(m1, "Failed to fetch") THEN NetworkFailure ELSE m3
    IN IF error.isError THEN m4 ELSE UnknownError

\* lines 175-182: errorMessage, assigned and tested in turn
ErrorMessage(error) ==
    LET m1 == error.message
        m2 == IF Includes(m1, "403") THEN AccessDenied ELSE m1
        m3 == IF Includes(m2, "503") THEN ServiceUnavailable ELSE m2
        m4 == IF Includes(m3, "Failed to fetch") THEN NetworkFailure ELSE m3
    IN IF error.isError THEN m4 ELSE UnknownError

\* lines 184-191: onError(errorMessage) and the log entry
\* `Connection Aborted: ${errorMessage}`
ErrorReport(error) ==
    [onError |-> ErrorMessage(error),
     log |-> <<"Connection Aborted: ", ErrorMessage(error)>>]

\* the state after construction, but for the failure the environment holds
InitClient ==
    /\ sessionPromise = "null"
    /\ inputAudioContext = "null"
    /\ outputAudioContext = "null"
    /\ stream = "null"
    /\ processor = "null"
    /\ source = "null"
    /\ nextStartTime = 0
    /\ activeSources = {}
    /\ isMuted = FALSE
    /\ pcConnect = "idle"
    /\ disc = IdleDisc
    /\ msgs = <<>>
    /\ status = "DISCONNECTED"
    /\ clientRef = FALSE
    /\ chan = "none"
    /\ oldChan = "none"
    /\ clock = 0
    /\ chunks = <<>>
    /\ epoch = 0
    /\ toolResponses = <<>>
    /\ frames = <<>>
    /\ sentFrames = <<>>
    /\ audioLevels = <<>>
    /\ statusHist = <<>>
    /\ errors = [k \in {"connect", "transport"} |-> 0]
    /\ logCount = [k \in LogKinds |-> 0]
    /\ deviceTracks = 0
    /\ teardownOps = 0
    /\ toggles = 0
    /\ discCalls = 0
    /\ reports = <<>>

Init == InitClient /\ thrown = DeniedError

\* config.onLog(entry)
Logged(lc, kind) == [lc EXCEPT ![kind] = @ + 1]

\* ------------------------------------------------------------ connect
\* connect() up to the await of getUserMedia, called on the fresh object by
\* connectToGemini, which first stores the object in liveClientRef
ConnectCall ==
    /\ pcConnect = "idle"
    /\ disc.pc \in {"idle", "done"}
    /\ clientRef' = TRUE
    /\ status' = "CONNECTING"
    /\ statusHist' = Append(statusHist, "CONNECTING")
    /\ inputAudioContext' = "running"
    /\ outputAudioContext' = "running"
    /\ pcConnect' = "awaitMedia"
    /\ UNCHANGED <<sessionPromise, stream, processor, source, nextStartTime,
                   activeSources, isMuted, disc, msgs, chan, oldChan, thrown, reports, clock, chunks, epoch,
                   toolResponses, frames, sentFrames, audioLevels, errors, logCount,
                   deviceTracks, teardownOps, toggles, discCalls>>

\* getUserMedia resolves: the stream is stored and client.live.connect() is
\* called; its promise is stored without being awaited
MediaGranted ==
    /\ pcConnect = "awaitMedia"
    /\ stream' = "live"
    /\ deviceTracks' = deviceTracks + 1
    /\ sessionPromise' = "pending"
    /\ chan' = "opening"
    /\ pcConnect' = "done"
    /\ UNCHANGED <<oldChan, thrown, reports, inputAudioContext, outputAudioContext, processor, source,
                   nextStartTime, activeSources, isMuted, disc, msgs, status,
                   clientRef, clock, chunks, epoch, toolResponses, frames,
                   sentFrames, audioLevels, statusHist, errors, logCount, teardownOps,
                   toggles, discCalls>>

\* a connect() whose try block covers getUserMedia only: after the denial is
\* reported, the session is opened all the same
MediaDeniedFallsThrough ==
    /\ pcConnect = "awaitMedia"
    /\ status' = "ERROR"
    /\ statusHist' = Append(statusHist, "ERROR")
    /\ errors' = [errors EXCEPT !["connect"] = @ + 1]
    /\ logCount' = Logged(logCount, "aborted")
    /\ pcConnect' = "failed"
    /\ reports' = Append(reports, ErrorReport(thrown))
    /\ sessionPromise' = "pending"
    /\ chan' = "opening"
    /\ UNCHANGED <<oldChan, thrown, inputAudioContext, outputAudioContext, stream, processor, source,
                   nextStartTime, activeSources, isMuted, disc, msgs, clientRef, clock,
                   chunks, epoch, toolResponses, frames, sentFrames, audioLevels,
                   deviceTracks, teardownOps, toggles, discCalls>>

\* getUserMedia rejects: the catch block of connect()
MediaDenied ==
    /\ pcConnect = "awaitMedia"
    /\ status' = "ERROR"
    /\ statusHist' = Append(statusHist, "ERROR")
    /\ errors' = [errors EXCEPT !["connect"] = @ + 1]
    /\ logCount' = Logged(logCount, "aborted")
    /\ pcConnect' = "failed"
    /\ reports' = Append(reports, ErrorReport(thrown))
    /\ UNCHANGED <<clientVars, disc, msgs, clientRef, chan, oldChan, thrown, clock, chunks, epoch,
                   toolResponses, frames, sentFrames, audioLevels, deviceTracks, teardownOps,
                   toggles, discCalls>>

\* startAudioStreaming(): the capture graph is built unless the input
\* context or the stream is missing
StartsStreaming == inputAudioContext # "null" /\ stream # "null"

\* the channel opens: the onopen callback (handleOpen) runs and the promise
\* of client.live.connect() resolves with the session
ChannelOpen ==
    /\ chan = "opening"
    /\ chan' = "open"
    /\ sessionPromise' = IF sessionPromise = "pending" THEN "resolved" ELSE sessionPromise
    /\ status' = "CONNECTED"
    /\ statusHist' = Append(statusHist, "CONNECTED")
    /\ logCount' = Logged(logCount, "online")
    /\ source' = IF StartsStreaming THEN "connected" ELSE source
    /\ processor' = IF StartsStreaming THEN "active" ELSE processor
    /\ UNCHANGED <<oldChan, thrown, reports, inputAudioContext, outputAudioContext, stream, nextStartTime,
                   activeSources, isMuted, pcConnect, disc, msgs, clientRef, clock,
                   chunks, epoch, toolResponses, frames, sentFrames, audioLevels, errors,
                   deviceTracks, teardownOps, toggles, discCalls>>

\* the channel cannot be opened: the promise of client.live.connect()
\* rejects; connect() has returned and nothing awaits the promise
ChannelRefused ==
    /\ chan = "opening"
    /\ chan' = "closed"
    /\ sessionPromise' = IF sessionPromise = "pending" THEN "rejected" ELSE sessionPromise
    /\ UNCHANGED <<oldChan, thrown, reports, inputAudioContext, outputAudioContext, stream, processor, source,
                   nextStartTime, activeSources, isMuted, pcConnect, disc, msgs,
                   status, clientRef, clock, chunks, epoch, toolResponses, frames,
                   sentFrames, audioLevels, statusHist, errors, logCount, deviceTracks,
                   teardownOps, toggles, discCalls>>

\* an onerror callback that treats the error as fatal to the session
HandleErrorFatal ==
    /\ chan = "open"
    /\ errors["transport"] < MaxErrors
    /\ errors' = [errors EXCEPT !["transport"] = @ + 1]
    /\ logCount' = Logged(logCount, "protocolError")
    /\ status' = "ERROR"
    /\ statusHist' = Append(statusHist, "ERROR")
    /\ UNCHANGED <<clientVars, pcConnect, disc, msgs, clientRef, chan, oldChan, thrown, reports, clock,
                   chunks, epoch, toolResponses, frames, sentFrames, audioLevels,
                   deviceTracks, teardownOps, toggles, discCalls>>

\* onerror callback
HandleError ==
    /\ chan = "open"
    /\ errors["transport"] < MaxErrors
    /\ errors' = [errors EXCEPT !["transport"] = @ + 1]
    /\ logCount' = Logged(logCount, "protocolError")
    /\ UNCHANGED <<clientVars, pcConnect, disc, msgs, status, clientRef, chan, oldChan, thrown, reports, clock,
                   chunks, epoch, toolResponses, frames, sentFrames, audioLevels, statusHist,
                   deviceTracks, teardownOps, toggles, discCalls>>

\* an onclose callback that reports the state without logging
HandleCloseUnlogged ==
    /\ chan \in {"open", "closing"}
    /\ chan' = "closed"
    /\ status' = "DISCONNECTED"
    /\ statusHist' = Append(statusHist, "DISCONNECTED")
    /\ UNCHANGED <<oldChan, thrown, reports, clientVars, pcConnect, disc, msgs, clientRef, clock, chunks, epoch,
                   toolResponses, frames, sentFrames, audioLevels, errors, logCount,
                   deviceTracks, teardownOps, toggles, discCalls>>

\* onclose callback: the remote or the transport closes the channel, or the
\* close requested by disconnect() completes
HandleClose ==
    /\ chan \in {"open", "closing"}
    /\ chan' = "closed"
    /\ status' = "DISCONNECTED"
    /\ statusHist' = Append(statusHist, "DISCONNECTED")
    /\ logCount' = Logged(logCount, "offline")
    /\ UNCHANGED <<oldChan, thrown, reports, clientVars, pcConnect, disc, msgs, clientRef, clock, chunks, epoch,
                   toolResponses, frames, sentFrames, audioLevels, errors, deviceTracks,
                   teardownOps, toggles, discCalls>>

\* setMute(muted), as toggleMute calls it
SetMute ==
    /\ toggles < MaxToggles
    /\ toggles' = toggles + 1
    /\ isMuted' = ~isMuted
    /\ UNCHANGED <<sessionPromise, inputAudioContext, outputAudioContext, stream,
                   processor, source, nextStartTime, activeSources, pcConnect, disc,
                   msgs, status, clientRef, chan, oldChan, thrown, reports, clock, chunks, epoch,
                   toolResponses, frames, sentFrames, audioLevels, statusHist, errors, logCount,
                   deviceTracks, teardownOps, discCalls>>

\* the output clock advances
Tick ==
    /\ clock < MaxClock
    /\ outputAudioContext # "null"
    /\ clock' = clock + 1
    /\ UNCHANGED <<clientVars, pcConnect, disc, msgs, status, clientRef, chan, oldChan, thrown, reports, chunks,
                   epoch, toolResponses, frames, sentFrames, audioLevels, statusHist, errors,
                   logCount, deviceTracks, teardownOps, toggles, discCalls>>

\* ------------------------------------------------------------ playback
\* s.stop() on every handle of the set
StopAll(ch, set) ==
    [h \in DOMAIN ch |->
        IF h \in set /\ ch[h].state = "sched" THEN [ch[h] EXCEPT !.state = "stopped"]
        ELSE ch[h]]

\* a cursor taken from the clock alone
CursorFromClock(nst, clk) == clk

\* line 265, before the decode is awaited
CursorOnEnqueue(nst, clk) == Max(nst, clk)

\* line 276: the argument of source.start()
StartArgument(nst, clk) == nst

\* a cursor that is not advanced by the chunk
CursorNotAdvanced(nst, dur) == nst

\* line 277
CursorAfterStart(nst, dur) == nst + dur

\* line 287
CursorAfterInterrupt == 0

\* an interruption that forgets to clear the set
SetNotCleared(set) == set

\* lines 285-286: the handles after forEach(stop), and the cleared set
InterruptHandles(ch, set) == StopAll(ch, set)
InterruptSet(set) == {}

\* --------------------------------------------------------- disconnect
B2N(b) == IF b THEN 1 ELSE 0

\* nothing of the client is allocated: every guard of disconnect() is false
Released ==
    /\ processor = "null" /\ source = "null" /\ stream = "null"
    /\ inputAudioContext = "null" /\ outputAudioContext = "null"
    /\ activeSources = {} /\ sessionPromise = "null"

\* a caller that does not set the connection state after disconnect()
DiscReturnsStateKept(d) ==
    /\ disc' = [d EXCEPT !.pc = "done"]
    /\ clientRef' = IF d.via = "app" THEN FALSE ELSE clientRef
    /\ UNCHANGED status

\* disconnect() returns; disconnectFromGemini then clears liveClientRef and
\* sets the connection state (App.tsx:144-146)
DiscReturns(d) ==
    /\ disc' = [d EXCEPT !.pc = "done"]
    /\ clientRef' = IF d.via = "app" THEN FALSE ELSE clientRef
    /\ status' = IF d.via = "app" THEN "DISCONNECTED" ELSE status

\* disconnect() from the stop of the active sources on (lines 384-397), up
\* to the await of the session promise
DiscFromSources(d, ops) ==
    /\ chunks' = StopAll(chunks, activeSources)
    /\ activeSources' = {}
    /\ teardownOps' = ops + Cardinality(activeSources)
    /\ IF sessionPromise # "null"
       THEN /\ disc' = [d EXCEPT !.pc = "awaitSess"]
            /\ UNCHANGED <<clientRef, status>>
       ELSE DiscReturns(d)

\* disconnect() from the test of the output context on (lines 379-397)
DiscFromOutput(d, ops) ==
    IF outputAudioContext # "null"
    THEN /\ outputAudioContext' = "closing"
         /\ teardownOps' = ops + 1
         /\ disc' = [d EXCEPT !.pc = "awaitOut"]
         /\ UNCHANGED <<activeSources, chunks, clientRef, status>>
    ELSE /\ UNCHANGED outputAudioContext
         /\ DiscFromSources(d, ops)

\* a teardown that is not guarded by the null tests
CaptureTeardownUnguarded == B2N(TRUE) + B2N(TRUE) + B2N(TRUE)

\* the operations of lines 361-373: processor, source and tracks
CaptureTeardownOps == B2N(processor # "null") + B2N(source # "null") + B2N(stream # "null")

\* LiveClient.disconnect() is called, directly (via = "client") or by
\* disconnectFromGemini (via = "app"), and runs to its first await
DisconnectCall(via) ==
    /\ disc.pc \in {"idle", "done"}
    /\ via = "app" => clientRef
    /\ discCalls < MaxDisconnects
    /\ discCalls' = discCalls + 1
    /\ processor' = "null"
    /\ source' = "null"
    /\ stream' = "null"
    /\ deviceTracks' = IF stream # "null" THEN deviceTracks - 1 ELSE deviceTracks
    /\ LET d == [pc |-> "call", via |-> via, from |-> status, released |-> Released]
           ops == teardownOps + CaptureTeardownOps
       IN IF inputAudioContext # "null"
          THEN /\ inputAudioContext' = "closing"
               /\ teardownOps' = ops + 1
               /\ disc' = [d EXCEPT !.pc = "awaitIn"]
               /\ UNCHANGED <<outputAudioContext, activeSources, chunks, clientRef, status>>
          ELSE /\ UNCHANGED inputAudioContext
               /\ DiscFromOutput(d, ops)
    /\ UNCHANGED <<sessionPromise, nextStartTime, isMuted, pcConnect, msgs, chan, oldChan, thrown, reports, clock,
                   epoch, toolResponses, frames, sentFrames, audioLevels, statusHist, errors,
                   logCount, toggles>>

\* disconnectFromGemini with no client stored: only the state is set
DisconnectNoClient ==
    /\ disc.pc \in {"idle", "done"}
    /\ ~clientRef
    /\ discCalls < MaxDisconnects
    /\ discCalls' = discCalls + 1
    /\ disc' = [pc |-> "done", via |-> "none", from |-> status, released |-> Released]
    /\ status' = "DISCONNECTED"
    /\ UNCHANGED <<clientVars, pcConnect, msgs, clientRef, chan, oldChan, thrown, reports, clock, chunks, epoch,
                   toolResponses, frames, sentFrames, audioLevels, statusHist, errors, logCount,
                   deviceTracks, teardownOps, toggles>>

\* inputAudioContext.close() has resolved
DiscInputClosed ==
    /\ disc.pc = "awaitIn"
    /\ inputAudioContext' = "null"
    /\ DiscFromOutput(disc, teardownOps)
    /\ UNCHANGED <<sessionPromise, stream, processor, source, nextStartTime, isMuted,
                   pcConnect, msgs, chan, oldChan, thrown, reports, clock, epoch, toolResponses, frames,
                   sentFrames, audioLevels, statusHist, errors, logCount, deviceTracks, toggles,
                   discCalls>>

\* outputAudioContext.close() has resolved
DiscOutputClosed ==
    /\ disc.pc = "awaitOut"
    /\ outputAudioContext' = "null"
    /\ DiscFromSources(disc, teardownOps)
    /\ UNCHANGED <<sessionPromise, inputAudioContext, stream, processor, source,
                   nextStartTime, isMuted, pcConnect, msgs, chan, oldChan, thrown, reports, clock, epoch,
                   toolResponses, frames, sentFrames, audioLevels, statusHist, errors, logCount,
                   deviceTracks, toggles, discCalls>>

\* the awaited session promise has settled: session.close() when it resolved,
\* the catch when it rejected; either way the handle is cleared
DiscSessionSettled ==
    /\ disc.pc = "awaitSess"
    /\ sessionPromise \in {"resolved", "rejected"}
    /\ chan' = IF sessionPromise = "resolved" /\ chan = "open" THEN "closing" ELSE chan
    /\ teardownOps' = teardownOps + B2N(sessionPromise = "resolved")
    /\ sessionPromise' = "null"
    /\ DiscReturns(disc)
    /\ UNCHANGED <<oldChan, thrown, reports, inputAudioContext, outputAudioContext, stream, processor, source,
                   nextStartTime, activeSources, isMuted, pcConnect, msgs, clock,
                   chunks, epoch, toolResponses, frames, sentFrames, audioLevels, statusHist,
                   errors, logCount, deviceTracks, toggles, discCalls>>

\* ------------------------------------------------------ handleMessage
\* part 3 of handleMessage (lines 284-295), which ends the invocation; ms, lc,
\* nst, act and ch are the values the earlier parts of the same step left
InterruptStage(m, ms, lc, nst, act, ch) ==
    /\ msgs' = [ms EXCEPT ![m].pc = "done"]
    /\ IF ms[m].intr
       THEN /\ chunks' = InterruptHandles(ch, act)
            /\ activeSources' = InterruptSet(act)
            /\ nextStartTime' = CursorAfterInterrupt
            /\ logCount' = Logged(lc, "interrupted")
            /\ epoch' = epoch + 1
       ELSE /\ chunks' = ch
            /\ activeSources' = act
            /\ nextStartTime' = nst
            /\ logCount' = lc
            /\ epoch' = epoch

\* a handler that goes from the tool calls straight to the interruption
AudioStageSkipped(m, ms, lc) ==
    InterruptStage(m, ms, lc, nextStartTime, activeSources, chunks)

\* part 2 of handleMessage up to the await of decodeAudioData (lines 250-266),
\* or part 3 when there is no audio or no output context
AudioStage(m, ms, lc) ==
    IF ms[m].audio > 0 /\ outputAudioContext # "null"
    THEN /\ nextStartTime' = CursorOnEnqueue(nextStartTime, clock)
         /\ msgs' = [ms EXCEPT ![m].pc = "decode", ![m].enq = epoch]
         /\ logCount' = lc
         /\ UNCHANGED <<activeSources, chunks, epoch>>
    ELSE InterruptStage(m, ms, lc, nextStartTime, activeSources, chunks)

\* the shapes of inbound message: function calls, an audio chunk (its
\* duration, 0 for none) and the interruption flag, in any combination
MsgShapes ==
    {sh \in [calls : CallCounts, audio : {0} \cup Durations, intr : BOOLEAN] :
        sh.calls > 0 \/ sh.audio > 0 \/ sh.intr}

\* a dispatcher that makes no log entry for the call it dispatches
DispatchUnlogged(lc) == lc

\* lines 211-217: the info entry "Executing protocol: <name>" made for a
\* function call right before its handler is called at line 222
DispatchLogs(lc) == Logged(lc, "executing")

\* onmessage callback: handleMessage runs to its first await
Receive(sh) ==
    /\ chan = "open"
    /\ Len(msgs) < MaxMsgs
    /\ LET m == Len(msgs) + 1
           ms == Append(msgs, [calls |-> sh.calls, audio |-> sh.audio,
                               intr |-> sh.intr, pc |-> "new", i |-> 0, enq |-> 0,
                               outs |-> <<>>])
       IN IF sh.calls > 0
          THEN /\ logCount' = DispatchLogs(logCount)
               /\ msgs' = [ms EXCEPT ![m].pc = "tool", ![m].i = 1]
               /\ UNCHANGED <<nextStartTime, activeSources, chunks, epoch>>
          ELSE AudioStage(m, ms, logCount)
    /\ UNCHANGED <<sessionPromise, inputAudioContext, outputAudioContext, stream,
                   processor, source, isMuted, pcConnect, disc, status, clientRef,
                   chan, oldChan, thrown, reports, clock, toolResponses, frames, sentFrames, audioLevels,
                   statusHist, errors, deviceTracks, teardownOps, toggles,
                   discCalls>>

\* a dispatcher that replies whether or not a session handle is left
ToolRepliesAlways(sp, id, result, lc) ==
    <<[id |-> id, result |-> result, errLogs |-> lc["toolFailure"]]>>

\* a dispatcher that sends every reply twice
ToolRepliesTwice(sp, id, result, lc) ==
    IF sp = "resolved"
    THEN <<[id |-> id, result |-> result, errLogs |-> lc["toolFailure"]],
           [id |-> id, result |-> result, errLogs |-> lc["toolFailure"]]>>
    ELSE <<>>

\* a dispatcher that answers only the calls that succeeded
ToolRepliesOnSuccess(sp, id, result, lc) ==
    IF sp = "resolved" /\ result.status # "FAILED"
    THEN <<[id |-> id, result |-> result, errLogs |-> lc["toolFailure"]]>>
    ELSE <<>>

\* lines 237-245: sessionPromise?.then(session => session.sendToolResponse(..)).
\* With no session handle nothing is sent; the callback of a resolved promise
\* runs before any other event.  id stands for the function call fc, whose id
\* and name the reply copies; errLogs is the number of tool-failure log
\* entries made when the reply is sent
ToolReplies(sp, id, result, lc) ==
    IF sp = "resolved"
    THEN <<[id |-> id, result |-> result, errLogs |-> lc["toolFailure"]]>>
    ELSE <<>>

\* line 224: err.message || "Unknown tool failure"
ErrStr(message) == IF message # "" THEN message ELSE "Unknown tool failure"

\* a failure handed back as if it were the handler's value
ToolResultUnstructured(out) ==
    [value |-> out.val, error |-> "absent", status |-> "absent"]

\* lines 220-234: the result handed to the reply, the handler's value or
\* the structured failure
ToolResult(out) ==
    IF out.ok THEN [value |-> out.val, error |-> "absent", status |-> "absent"]
    ELSE [value |-> "absent", error |-> ErrStr(out.val), status |-> "FAILED"]

\* lines 223-232: the catch block logs the failure
ToolLogs(lc, out) == IF out.ok THEN lc ELSE Logged(lc, "toolFailure")

\* a dispatcher that lets a handler failure surface as a session error
ToolSettledRaisesError(m, out) ==
    /\ m \in DOMAIN msgs
    /\ msgs[m].pc = "tool"
    /\ LET i == msgs[m].i
           lc == ToolLogs(logCount, out)
           ms == [msgs EXCEPT ![m].outs = Append(@, out)]
       IN /\ toolResponses' = toolResponses \o
                 ToolReplies(sessionPromise, <<m, i>>, ToolResult(out), lc)
          /\ IF i < msgs[m].calls
             THEN /\ logCount' = DispatchLogs(lc)
                  /\ msgs' = [ms EXCEPT ![m].i = i + 1]
                  /\ UNCHANGED <<nextStartTime, activeSources, chunks, epoch>>
             ELSE AudioStage(m, ms, lc)
    /\ errors' = IF out.ok THEN errors ELSE [errors EXCEPT !["connect"] = @ + 1]
    /\ UNCHANGED <<sessionPromise, inputAudioContext, outputAudioContext, stream,
                   processor, source, isMuted, pcConnect, disc, status, clientRef,
                   chan, oldChan, thrown, reports, clock, frames, sentFrames, audioLevels, statusHist,
                   deviceTracks, teardownOps, toggles, discCalls>>

\* the pending onSystemAction of invocation <<m, i>> settles with outcome out;
\* the loop replies and goes on to the next call or to part 2
ToolSettled(m, out) ==
    /\ m \in DOMAIN msgs
    /\ msgs[m].pc = "tool"
    /\ LET i == msgs[m].i
           lc == ToolLogs(logCount, out)
           ms == [msgs EXCEPT ![m].outs = Append(@, out)]
       IN /\ toolResponses' = toolResponses \o
                 ToolReplies(sessionPromise, <<m, i>>, ToolResult(out), lc)
          /\ IF i < msgs[m].calls
             THEN /\ logCount' = DispatchLogs(lc)
                  /\ msgs' = [ms EXCEPT ![m].i = i + 1]
                  /\ UNCHANGED <<nextStartTime, activeSources, chunks, epoch>>
             ELSE AudioStage(m, ms, lc)
    /\ UNCHANGED <<sessionPromise, inputAudioContext, outputAudioContext, stream,
                   processor, source, isMuted, pcConnect, disc, status, clientRef,
                   chan, oldChan, thrown, reports, clock, frames, sentFrames, audioLevels, statusHist, errors,
                   deviceTracks, teardownOps, toggles, discCalls>>

\* decodeAudioData has resolved: lines 268-280 and part 3.  When disconnect()
\* has cleared outputAudioContext meanwhile, createBufferSource throws and the
\* invocation ends there
DecodeDone(m) ==
    /\ m \in DOMAIN msgs
    /\ msgs[m].pc = "decode"
    /\ IF outputAudioContext = "null"
       THEN /\ msgs' = [msgs EXCEPT ![m].pc = "threw"]
            /\ UNCHANGED <<nextStartTime, activeSources, chunks, epoch, logCount>>
       ELSE LET h == Len(chunks) + 1
                c == [start |-> StartArgument(nextStartTime, clock),
                      dur |-> msgs[m].audio, at |-> clock, state |-> "sched",
                      epoch |-> epoch, msg |-> m, enq |-> msgs[m].enq]
            IN InterruptStage(m, msgs, logCount,
                              CursorAfterStart(nextStartTime, msgs[m].audio),
                              activeSources \cup {h}, Append(chunks, c))
    /\ UNCHANGED <<sessionPromise, inputAudioContext, outputAudioContext, stream,
                   processor, source, isMuted, pcConnect, disc, status, clientRef,
                   chan, oldChan, thrown, reports, clock, toolResponses, frames, sentFrames, audioLevels,
                   statusHist, errors, deviceTracks, teardownOps, toggles, discCalls>>

\* the time a started chunk stops sounding: start(when) with when in the past
\* plays at once
EndTime(c) == Max(c.start, c.at) + c.dur

\* a source whose onended callback leaves the handle in the set
EndedHandleKept(h) ==
    /\ h \in DOMAIN chunks
    /\ chunks[h].state = "sched"
    /\ clock >= EndTime(chunks[h])
    /\ chunks' = [chunks EXCEPT ![h].state = "ended"]
    /\ activeSources' = activeSources
    /\ UNCHANGED <<sessionPromise, inputAudioContext, outputAudioContext, stream,
                   processor, source, nextStartTime, isMuted, pcConnect, disc, msgs,
                   status, clientRef, chan, oldChan, thrown, reports, clock, epoch, toolResponses, frames,
                   sentFrames, audioLevels, statusHist, errors, logCount,
                   deviceTracks, teardownOps, toggles, discCalls>>

\* source.onended (line 280) of a chunk that played to its end
Ended(h) ==
    /\ h \in DOMAIN chunks
    /\ chunks[h].state = "sched"
    /\ clock >= EndTime(chunks[h])
    /\ chunks' = [chunks EXCEPT ![h].state = "ended"]
    /\ activeSources' = activeSources \ {h}
    /\ UNCHANGED <<sessionPromise, inputAudioContext, outputAudioContext, stream,
                   processor, source, nextStartTime, isMuted, pcConnect, disc, msgs,
                   status, clientRef, chan, oldChan, thrown, reports, clock, epoch, toolResponses, frames,
                   sentFrames, audioLevels, statusHist, errors, logCount,
                   deviceTracks, teardownOps, toggles, discCalls>>

\* ------------------------------------------------------------ capture
\* a frame handler without the mute test
NeverDrops(muted) == FALSE

\* line 329
DropsFrame(muted) == muted

\* line 336: the loudness callback of a frame of loudness rms
MicLevels(f, rms) ==
    IF rms > NoiseFloor THEN <<[frame |-> f, volume |-> rms * Gain]>> ELSE <<>>

\* a sender that makes the call again
FrameSendsTwice(sp, f) == IF sp = "resolved" THEN <<f, f>> ELSE <<>>

\* a sender that waits for the tool handlers to finish
FrameSendsWhenIdle(sp, f) ==
    IF sp = "resolved" /\ \A m \in DOMAIN msgs : msgs[m].pc # "tool" THEN <<f>> ELSE <<>>

\* lines 342-353: sessionPromise?.then(session => session.sendRealtimeInput(..)),
\* the calls of sendRealtimeInput made for frame f
FrameSends(sp, f) == IF sp = "resolved" THEN <<f>> ELSE <<>>

\* what is suspended when a frame is captured: a tool handler awaited by
\* handleMessage (line 222), the session awaited by disconnect() (line 391)
Suspended ==
    IF \E m \in DOMAIN msgs : msgs[m].pc = "tool" THEN "tool"
    ELSE IF disc.pc = "awaitSess" THEN "close"
    ELSE "none"

\* sendRealtimeInput may throw (lines 343-352) when a call of it is made
SendThrows(muted, sp) == IF ~DropsFrame(muted) /\ sp = "resolved" THEN BOOLEAN ELSE {FALSE}

\* processor.onaudioprocess (lines 328-354) for one captured frame; a throw
\* of sendRealtimeInput is caught and ignored
Capture(rms) ==
    /\ processor = "active"
    /\ inputAudioContext # "null"
    /\ Len(frames) < MaxFrames
    /\ LET f == Len(frames) + 1
       IN /\ \E threw \in SendThrows(isMuted, sessionPromise) :
                 frames' = Append(frames, [muted |-> isMuted, rms |-> rms,
                                           sp |-> sessionPromise, threw |-> threw,
                                           during |-> Suspended])
          /\ IF DropsFrame(isMuted)
             THEN UNCHANGED <<audioLevels, sentFrames>>
             ELSE /\ audioLevels' = audioLevels \o MicLevels(f, rms)
                  /\ sentFrames' = sentFrames \o FrameSends(sessionPromise, f)
    /\ UNCHANGED <<clientVars, pcConnect, disc, msgs, status, clientRef, chan, oldChan, thrown, reports, clock,
                   chunks, epoch, toolResponses, statusHist, errors, logCount,
                   deviceTracks, teardownOps, toggles, discCalls>>

\* ---------------------------------------------------------- reconnect
\* connectToGemini after disconnectFromGemini has completed (toggleConnection,
\* or handleVoiceChange right after its disconnect): a new LiveClient object is
\* built, given the mute state, stored in liveClientRef, and its connect() runs
\* to the await of getUserMedia.  The previous object has released everything;
\* what is left of it is its channel, whose close event may still be due
Reconnect ==
    /\ ~clientRef
    /\ disc.pc = "done" /\ disc.via = "app"
    /\ pcConnect \in {"done", "failed"}
    /\ Released
    /\ chan \in {"none", "closing", "closed"}
    /\ oldChan # "closing"
    /\ \A m \in DOMAIN msgs : msgs[m].pc \in {"done", "threw"}
    /\ clientRef' = TRUE
    /\ status' = "CONNECTING"
    /\ statusHist' = Append(statusHist, "CONNECTING")
    /\ inputAudioContext' = "running"
    /\ outputAudioContext' = "running"
    /\ nextStartTime' = 0
    /\ clock' = 0
    /\ pcConnect' = "awaitMedia"
    /\ disc' = IdleDisc
    /\ oldChan' = IF chan = "closing" THEN "closing" ELSE oldChan
    /\ chan' = "none"
    /\ UNCHANGED <<thrown, reports, sessionPromise, stream, processor, source, activeSources, isMuted,
                   msgs, chunks, epoch, toolResponses, frames, sentFrames,
                   audioLevels, errors, logCount, deviceTracks, teardownOps, toggles,
                   discCalls>>

\* connect() calls made so far: each reports CONNECTING first (line 133)
Connects == Cardinality({k \in DOMAIN statusHist : statusHist[k] = "CONNECTING"})

\* toggleConnection while the state is neither CONNECTED nor CONNECTING
\* (App.tsx:367-373), after a close by the remote or a failed attempt:
\* connectToGemini builds a new LiveClient object and stores it over the one
\* in liveClientRef, on which disconnect() was never called.  The fields are
\* those of the new object; what the previous object still holds (its device
\* tracks) stays held
ConnectNoDisconnect ==
    /\ clientRef
    /\ status \in {"DISCONNECTED", "ERROR"}
    /\ pcConnect \in {"done", "failed"}
    /\ disc.pc = "idle"
    /\ chan \in {"none", "closed"}
    /\ oldChan # "closing"
    /\ \A m \in DOMAIN msgs : msgs[m].pc \in {"done", "threw"}
    /\ Connects < MaxConnects
    /\ status' = "CONNECTING"
    /\ statusHist' = Append(statusHist, "CONNECTING")
    /\ sessionPromise' = "null"
    /\ stream' = "null"
    /\ processor' = "null"
    /\ source' = "null"
    /\ inputAudioContext' = "running"
    /\ outputAudioContext' = "running"
    /\ nextStartTime' = 0
    /\ activeSources' = {}
    /\ clock' = 0
    /\ pcConnect' = "awaitMedia"
    /\ chan' = "none"
    /\ UNCHANGED <<isMuted, disc, msgs, clientRef, oldChan, thrown, reports, chunks, epoch,
                   toolResponses, frames, sentFrames, audioLevels, errors, logCount,
                   deviceTracks, teardownOps, toggles, discCalls>>

\* the onclose callback of the previous object (handleClose bound to it, with
\* the same onStatusChange and onLog closures of the application): the close
\* requested by its disconnect() completes
OldHandleClose ==
    /\ oldChan = "closing"
    /\ oldChan' = "closed"
    /\ status' = "DISCONNECTED"
    /\ statusHist' = Append(statusHist, "DISCONNECTED")
    /\ logCount' = Logged(logCount, "offline")
    /\ UNCHANGED <<thrown, reports, clientVars, pcConnect, disc, msgs, clientRef, chan, clock, chunks,
                   epoch, toolResponses, frames, sentFrames, audioLevels, errors,
                   deviceTracks, teardownOps, toggles, discCalls>>

\* -------------------------------------------------------------- system
\* the session's life cycle as the application drives it: connect, the
\* channel's events, disconnectFromGemini
Session ==
    \/ ConnectCall
    \/ MediaGranted
    \/ MediaDenied
    \/ ChannelOpen
    \/ ChannelRefused
    \/ HandleClose
    \/ DisconnectCall("app")
    \/ DiscInputClosed
    \/ DiscOutputClosed
    \/ DiscSessionSettled

AudioShapes == {sh \in MsgShapes : sh.calls = 0}
ToolShapes == {sh \in MsgShapes : sh.audio = 0 /\ ~sh.intr}

\* the life cycle alone, with every way of calling disconnect and the
\* transport's error event
NextSession ==
    \/ Session
    \/ HandleError
    \/ DisconnectCall("client")
    \/ DisconnectNoClient
    \/ SetMute

\* the playback pipeline: messages carrying audio and interruptions
NextPlayback ==
    \/ Session
    \/ Tick
    \/ \E sh \in AudioShapes : Receive(sh)
    \/ \E m \in 1..MaxMsgs : DecodeDone(m)
    \/ \E h \in 1..MaxMsgs : Ended(h)

\* the tool-call dispatcher: messages carrying function calls
NextTools ==
    \/ Session
    \/ \E sh \in ToolShapes : Receive(sh)
    \/ \E m \in 1..MaxMsgs, out \in Outcomes : ToolSettled(m, out)

\* the capture pipeline: frames and the mute toggle
NextCapture ==
    \/ Session
    \/ SetMute
    \/ \E rms \in RmsLevels : Capture(rms)

\* everything together
Next ==
    \/ NextSession
    \/ Tick
    \/ \E sh \in MsgShapes : Receive(sh)
    \/ \E m \in 1..MaxMsgs, out \in Outcomes : ToolSettled(m, out)
    \/ \E m \in 1..MaxMsgs : DecodeDone(m)
    \/ \E h \in 1..MaxMsgs : Ended(h)
    \/ \E rms \in RmsLevels : Capture(rms)
    \/ Reconnect
    \/ OldHandleClose
    \/ ConnectNoDisconnect

Spec == Init /\ [][Next]_vars
SpecSession == Init /\ [][NextSession]_vars
SpecPlayback == Init /\ [][NextPlayback]_vars
SpecTools == Init /\ [][NextTools]_vars
SpecCapture == Init /\ [][NextCapture]_vars

\* every combination of parts; with the clock standing still one audio
\* duration is enough
MixedShapes == {sh \in MsgShapes : sh.audio <= 1}

\* a resolution, and a rejection carrying a message
PlainOutcomes == {o \in Outcomes : o.val # ""}

\* a session that is opened and stays open, receiving messages of every
\* combination of parts, with the output clock standing still
NextMessages ==
    \/ ConnectCall
    \/ MediaGranted
    \/ ChannelOpen
    \/ \E sh \in MixedShapes : Receive(sh)
    \/ \E m \in 1..MaxMsgs, out \in PlainOutcomes : ToolSettled(m, out)
    \/ \E m \in 1..MaxMsgs : DecodeDone(m)

SpecMessages == Init /\ [][NextMessages]_vars

\* the handler of the first function call of the first message never
\* completes
Hung(m) == m = 1 /\ m \in DOMAIN msgs /\ msgs[m].i = 1

\* the open session of NextMessages with that one handler hung
NextHung ==
    \/ ConnectCall
    \/ MediaGranted
    \/ ChannelOpen
    \/ \E sh \in MixedShapes : Receive(sh)
    \/ \E m \in 1..MaxMsgs, out \in PlainOutcomes : ~Hung(m) /\ ToolSettled(m, out)
    \/ \E m \in 1..MaxMsgs : DecodeDone(m)

\* every other handler settles and every decode completes
SpecHung ==
    /\ Init /\ [][NextHung]_vars
    /\ \A m \in 1..MaxMsgs :
          /\ WF_vars(\E out \in PlainOutcomes : ~Hung(m) /\ ToolSettled(m, out))
          /\ WF_vars(DecodeDone(m))

\* capture running while function calls are dispatched, on a session the
\* application opens and disconnects
\* the buffers and handler outcomes of that scenario: a quiet and a speech-level
\* buffer, and handlers that fulfil (what a handler returns has no part in the
\* capture path)
UnsaturatedLevels == {r \in RmsLevels : r * Gain <= 1000}

Successes == {o \in Outcomes : o.ok}

\* the dispatcher on a session the application opens and disconnects, with
\* every outcome of a handler
NextDispatch ==
    \/ ConnectCall
    \/ MediaGranted
    \/ ChannelOpen
    \/ DisconnectCall("app")
    \/ DiscInputClosed
    \/ DiscOutputClosed
    \/ DiscSessionSettled
    \/ \E sh \in ToolShapes : Receive(sh)
    \/ \E m \in 1..MaxMsgs, out \in Outcomes : ToolSettled(m, out)

SpecDispatch == Init /\ [][NextDispatch]_vars

\* sessions opened one after the other: the life cycle, with a new connect
\* after a disconnect and the close event of the session left behind
NextReconnect ==
    \/ Session
    \/ Reconnect
    \/ OldHandleClose

SpecReconnect == Init /\ [][NextReconnect]_vars

\* the life cycle over several LiveClient objects: every event of a session,
\* and a new connect after a disconnect, a remote close or a failed attempt
NextReopen ==
    \/ NextSession
    \/ Reconnect
    \/ OldHandleClose
    \/ ConnectNoDisconnect

SpecReopen == Init /\ [][NextReopen]_vars

\* connect attempts that fail with any thrown value, and the attempts the
\* application makes after them
InitFailure == InitClient /\ thrown \in Thrown

NextFailure ==
    \/ ConnectCall
    \/ MediaGranted
    \/ MediaDenied
    \/ ChannelOpen
    \/ HandleClose
    \/ ConnectNoDisconnect

SpecFailure == InitFailure /\ [][NextFailure]_vars

\* capture and tool dispatch side by side
NextToolsCapture ==
    \/ ConnectCall
    \/ MediaGranted
    \/ ChannelOpen
    \/ DisconnectCall("app")
    \/ DiscInputClosed
    \/ DiscOutputClosed
    \/ DiscSessionSettled
    \/ \E sh \in ToolShapes : Receive(sh)
    \/ \E m \in 1..MaxMsgs, out \in Successes : ToolSettled(m, out)
    \/ \E rms \in UnsaturatedLevels : Capture(rms)

SpecToolsCapture == Init /\ [][NextToolsCapture]_vars

\* ============================================================= claims
\* the invocations received so far, <<message, index>>
Invocations == {id \in (DOMAIN msgs) \X (1..2) : id[2] <= msgs[id[1]].calls}

\* the handler of the invocation has resolved or rejected
Settled(id) == msgs[id[1]].pc # "tool" \/ msgs[id[1]].i > id[2]

\* the replies sent that reference the invocation
Replies(id) == {k \in DOMAIN toolResponses : toolResponses[k].id = id}

\* C1 as stated: every invocation whose handler has terminated, resolved or
\* rejected, has exactly one reply referencing its id.
C1_RepliedExactlyOnce ==
    \A id \in Invocations : Settled(id) => Cardinality(Replies(id)) = 1

\* C1 amended: no invocation is ever replied to twice, and while disconnect()
\* has not cleared the session handle every invocation whose handler has
\* terminated has exactly one reply, also when the handler failed.
C1_RepliedOnceWhileSessionHeld ==
    \A id \in Invocations :
        /\ Cardinality(Replies(id)) <= 1
        /\ Settled(id) /\ sessionPromise # "null" => Cardinality(Replies(id)) = 1
        /\ ~Settled(id) => Replies(id) = {}

\* C1 witness: a message of two calls, one failed and one succeeded, each
\* answered once
C1_Witness ==
    /\ sessionPromise = "resolved"
    /\ \E m \in DOMAIN msgs :
        /\ msgs[m].calls = 2 /\ msgs[m].pc = "done"
        /\ \E k \in Replies(<<m, 1>>) : toolResponses[k].result.status = "FAILED"
        /\ \E k \in Replies(<<m, 2>>) : toolResponses[k].result.value = "r"
        /\ Cardinality(Replies(<<m, 1>>)) = 1 /\ Cardinality(Replies(<<m, 2>>)) = 1

\* chunk k was started with no interruption processed since chunk j was
Together(j, k) == j < k /\ chunks[j].epoch = chunks[k].epoch

\* the cursor after chunk k was started
EndOf(k) == chunks[k].start + chunks[k].dur

\* C2: of two chunks started with no interruption in between, the later one
\* starts no earlier than the earlier one's start + duration: start times are
\* non-decreasing and no two scheduled chunks overlap, in whatever order the
\* decodes of concurrently handled messages complete.
C2_NoOverlap ==
    \A j, k \in DOMAIN chunks : Together(j, k) => chunks[k].start >= EndOf(j)

\* C2 witness: two messages decoded concurrently, the second one's decode
\* completing first, and the chunks scheduled back to back
C2_Witness ==
    /\ Len(chunks) = 2
    /\ chunks[1].msg = 2 /\ chunks[2].msg = 1
    /\ Together(1, 2)
    /\ chunks[2].start = EndOf(1)

\* C3 as stated: when a chunk is started, its start time is at least the
\* output clock of that moment (no chunk is scheduled in the past).
C3_NeverInPast ==
    \A k \in DOMAIN chunks : chunks[k].start >= chunks[k].at

\* C4: the step that processes an interruption (it emits the 'Output
\* Interrupted' log) stops every registered handle, leaves the active set
\* empty and the cursor at zero.
C4_InterruptionClears ==
    [][logCount'["interrupted"] > logCount["interrupted"] =>
          /\ activeSources' = {}
          /\ nextStartTime' = 0
          /\ \A h \in activeSources : chunks'[h].state = "stopped"
          /\ \A h \in DOMAIN chunks' : chunks'[h].state # "sched"]_vars

\* C4 witness: an interruption processed with two chunks pending, no
\* disconnect having been called
C4_Witness ==
    /\ epoch = 1 /\ discCalls = 0
    /\ Len(chunks) = 2
    /\ chunks[1].state = "stopped" /\ chunks[2].state = "stopped"
    /\ activeSources = {} /\ nextStartTime = 0

\* C5 as stated: after chunks were queued and an interruption was processed,
\* the next chunk enqueued (its message handled after the interruption) and
\* started first starts at the output clock of that moment.
C5_StartsAtNow ==
    \A k \in DOMAIN chunks :
        /\ k > 1
        /\ chunks[k - 1].epoch < chunks[k].epoch
        /\ chunks[k].enq = chunks[k].epoch
        => chunks[k].start = chunks[k].at

\* C6: gapless playback.  When chunk B is started while the cursor left by the
\* previous chunk A is still ahead of (or at) the output clock, and no
\* interruption came between, B starts exactly at A's start + A's duration.
C6_Gapless ==
    \A k \in DOMAIN chunks :
        k > 1 /\ Together(k - 1, k) /\ EndOf(k - 1) >= chunks[k].at
            => chunks[k].start = EndOf(k - 1)

\* C6 witness: A of duration 2 and then B of duration 1, B enqueued and
\* started before A has finished
C6_Witness ==
    /\ Len(chunks) = 2
    /\ chunks[1].msg = 1 /\ chunks[1].dur = 2
    /\ chunks[2].msg = 2 /\ chunks[2].dur = 1
    /\ Together(1, 2)
    /\ chunks[2].at < EndOf(1)
    /\ chunks[2].start = chunks[1].start + 2

\* a disconnect() call is made in this step
DiscCalled == discCalls' = discCalls + 1

\* a disconnect() call returns in this step
DiscCompleted == disc'.pc = "done" /\ (disc.pc # "done" \/ DiscCalled)

C8_EndsDisconnected ==
    [][DiscCompleted /\ disc'.via # "client" => status' = "DISCONNECTED"]_vars

\* C8 witness: a disconnect called in state ERROR, after a failed connect,
\* has completed
C8_Witness ==
    /\ disc.pc = "done" /\ disc.via = "app" /\ disc.from = "ERROR"
    /\ pcConnect = "failed"
    /\ status = "DISCONNECTED"

\* the loudness callbacks and the sends made for frame f
LevelsOf(f) == {k \in DOMAIN audioLevels : audioLevels[k].frame = f}
SendsOf(f) == {k \in DOMAIN sentFrames : sentFrames[k] = f}

\* every frame captured while muted caused no loudness callback and no send;
\* every frame captured while not muted caused its callback (above the noise
\* floor) and its send (the session being there)
FramesFollowMute ==
    \A f \in DOMAIN frames :
        IF frames[f].muted
        THEN LevelsOf(f) = {} /\ SendsOf(f) = {}
        ELSE /\ frames[f].rms > NoiseFloor => Cardinality(LevelsOf(f)) = 1
             /\ frames[f].sp = "resolved" => Cardinality(SendsOf(f)) = 1

\* C9: muting drops all capture frames, both the loudness callback and the
\* send resume with the first frame captured after unmute, and the toggle
\* itself changes nothing but the flag: no status change, no reconnect.
C9_MuteDropsFrames ==
    /\ []FramesFollowMute
    /\ [][isMuted' # isMuted =>
            UNCHANGED <<status, statusHist, chan, sessionPromise, pcConnect, disc,
                        stream, processor, source, inputAudioContext,
                        outputAudioContext, frames, sentFrames, audioLevels,
                        errors, logCount>>]_vars

\* C9 witness: a frame dropped while muted, then after unmute a frame
\* reported and sent, on the same connection
C9_Witness ==
    /\ Len(frames) = 2
    /\ frames[1].muted /\ frames[1].rms > NoiseFloor
    /\ ~frames[2].muted /\ frames[2].rms > NoiseFloor
    /\ audioLevels = <<[frame |-> 2, volume |-> frames[2].rms * Gain]>>
    /\ sentFrames = <<2>>
    /\ statusHist = <<"CONNECTING", "CONNECTED">>

\* C10: when connect() fails because the device denies access, the client
\* reported CONNECTING then ERROR and nothing else, onError was called once
\* and one error log event was emitted, and no remote session was opened.
C10_DeviceDenied ==
    pcConnect = "failed" =>
        /\ statusHist = <<"CONNECTING", "ERROR">>
        /\ errors["connect"] + errors["transport"] = 1
        /\ logCount["aborted"] = 1 /\ logCount["protocolError"] = 0
        /\ chan = "none" /\ sessionPromise = "null"
        /\ logCount["online"] = 0

\* C10 witness: the failed attempt, its error state showing
C10_Witness ==
    /\ pcConnect = "failed" /\ status = "ERROR"
    /\ errors["connect"] = 1

\* the statuses the client has reported
Reported == {statusHist[k] : k \in DOMAIN statusHist}

\* the connect sequence has failed: the device denied access, or the channel
\* opened by client.live.connect was refused
ConnectFailed == pcConnect = "failed" \/ sessionPromise = "rejected"

\* C11: whenever the connect sequence has failed, by device denial or by a
\* transport failure or remote rejection of the channel, ERROR has been
\* reported, onError has been called and the failure has been logged, and the
\* state is not left at CONNECTING.
C11_ConnectFailureReported ==
    ConnectFailed =>
        /\ "ERROR" \in Reported
        /\ errors["connect"] >= 1
        /\ logCount["aborted"] >= 1
        /\ status # "CONNECTING"

\* C12: after a failed connect() nothing is left allocated: no device
\* stream, no input graph, no frame processor or source, no output graph, no
\* active handle.
C12_NothingDangling ==
    ConnectFailed /\ disc.pc = "idle" =>
        /\ stream = "null" /\ deviceTracks = 0
        /\ inputAudioContext = "null"
        /\ processor = "null" /\ source = "null"
        /\ outputAudioContext = "null"
        /\ activeSources = {}

\* C13: the session status moves along DISCONNECTED -> CONNECTING ->
\* CONNECTED -> (ERROR | DISCONNECTED) only: it becomes CONNECTED only
\* directly from CONNECTING, and CONNECTING only from DISCONNECTED or ERROR.
C13_StatusMachine ==
    [][/\ status' = "CONNECTED" /\ status # "CONNECTED" => status = "CONNECTING"
       /\ status' = "CONNECTING" /\ status # "CONNECTING" =>
              status \in {"DISCONNECTED", "ERROR"}]_vars

\* the channel's close event is delivered in this step
Closes == chan' = "closed" /\ chan \in {"open", "closing"}

\* C14: a close of the channel, whatever the state before it, leaves the
\* state DISCONNECTED, reports DISCONNECTED, makes exactly one log entry (the
\* offline entry) and raises nothing: no onError call, and no field of the
\* client is touched.
C14_CloseDisconnects ==
    [][Closes =>
          /\ status' = "DISCONNECTED"
          /\ statusHist' = Append(statusHist, "DISCONNECTED")
          /\ logCount' = Logged(logCount, "offline")
          /\ UNCHANGED <<errors, clientVars, msgs, disc>>]_vars

\* C14 witness: the remote closed a connected session nobody had disconnected
C14_Witness ==
    /\ chan = "closed" /\ discCalls = 0
    /\ statusHist = <<"CONNECTING", "CONNECTED", "DISCONNECTED">>
    /\ status = "DISCONNECTED"
    /\ logCount["offline"] = 1

\* the transport's error event is delivered in this step
TransportErrors == errors'["transport"] > errors["transport"]

\* C15: a transport-level error calls onError once with the generic message
\* and makes one error log entry, and changes nothing else: status, capture
\* pipeline, active handles, cursor, session handle and channel are as before.
C15_ErrorChangesNothingElse ==
    [][TransportErrors =>
          /\ errors' = [errors EXCEPT !["transport"] = @ + 1]
          /\ logCount' = Logged(logCount, "protocolError")
          /\ UNCHANGED <<status, statusHist, clientVars, chan, msgs, chunks, disc,
                         pcConnect, deviceTracks, teardownOps>>]_vars

\* C15 witness: an error on a connected session whose capture pipeline runs;
\* the session is still connected and capturing
C15_Witness ==
    /\ errors["transport"] = 1 /\ logCount["protocolError"] = 1
    /\ status = "CONNECTED" /\ chan = "open"
    /\ processor = "active" /\ stream = "live" /\ sessionPromise = "resolved"

\* what the handler of the invocation did
HandlerOutcome(id) == msgs[id[1]].outs[id[2]]

\* the failure replies among the first k replies sent
FailedUpTo(k) == {j \in 1..k : toolResponses[j].result.status = "FAILED"}

\* C16: every reply sent references a received invocation (its id and name)
\* whose handler has settled; when the handler resolved with r the reply
\* carries r as its result; when it rejected with message m the reply
\* carries {error: m, status: "FAILED"} (the text "Unknown tool failure" when
\* the rejection has no message), and the error log entry of that failure
\* was made before the reply was sent.
C16_ReplyPayload ==
    \A k \in DOMAIN toolResponses :
        LET id == toolResponses[k].id
            r == toolResponses[k].result
        IN /\ id \in Invocations /\ Settled(id)
           /\ LET out == HandlerOutcome(id)
              IN /\ out.ok =>
                     r = [value |-> out.val, error |-> "absent", status |-> "absent"]
                 /\ ~out.ok /\ out.val # "" =>
                     r = [value |-> "absent", error |-> out.val, status |-> "FAILED"]
                 /\ ~out.ok /\ out.val = "" =>
                     r = [value |-> "absent", error |-> "Unknown tool failure",
                          status |-> "FAILED"]
                 /\ ~out.ok =>
                     toolResponses[k].errLogs >= Cardinality(FailedUpTo(k))

\* C16 witness: one message of two calls, the first rejected with "boom" and
\* answered by the structured failure after its log entry, the second
\* resolved and answered with its value
C16_Witness ==
    /\ Len(toolResponses) = 2
    /\ toolResponses[1] = [id |-> <<1, 1>>, errLogs |-> 1,
                           result |-> [value |-> "absent", error |-> "boom",
                                       status |-> "FAILED"]]
    /\ toolResponses[2].id = <<1, 2>>
    /\ toolResponses[2].result = [value |-> "r", error |-> "absent", status |-> "absent"]
    /\ logCount["toolFailure"] = 1

\* the handler of the pending call of message m rejects in this step
FailsIn(m) ==
    /\ Len(msgs'[m].outs) = Len(msgs[m].outs) + 1
    /\ ~msgs'[m].outs[Len(msgs'[m].outs)].ok

\* the step goes on into the audio and interruption parts of message m
EntersParts(m) == msgs[m].i = msgs[m].calls /\ (msgs[m].audio > 0 \/ msgs[m].intr)

\* C17: a tool-handler failure never interrupts the session.  The step in
\* which a handler rejects makes one tool-failure log entry and at most the
\* failure reply; it calls no onError, reports no status, and leaves the
\* capture pipeline, the session handle, the channel, and (unless the same
\* step goes on to the message's own audio or interruption part) the playback
\* cursor, the active handles and the chunks unchanged.
C17_FailureOnlyLogged ==
    [][\A m \in DOMAIN msgs : FailsIn(m) =>
          /\ logCount'["toolFailure"] = logCount["toolFailure"] + 1
          /\ Len(toolResponses') <= Len(toolResponses) + 1
          /\ \A k \in DOMAIN toolResponses' :
                 k > Len(toolResponses) =>
                     /\ toolResponses'[k].id = <<m, msgs[m].i>>
                     /\ toolResponses'[k].result.status = "FAILED"
          /\ UNCHANGED <<errors, status, statusHist, sessionPromise, chan, stream,
                         processor, source, inputAudioContext, outputAudioContext,
                         isMuted, frames, sentFrames, pcConnect, disc>>
          /\ ~EntersParts(m) => UNCHANGED <<nextStartTime, activeSources, chunks, epoch>>
          /\ logCount'["protocolError"] = logCount["protocolError"]
          /\ logCount'["aborted"] = logCount["aborted"]
          /\ logCount'["offline"] = logCount["offline"]]_vars

\* C17 witness: a handler has failed while a chunk was scheduled and capture
\* was running; the session is connected, no error was reported, the chunk is
\* still scheduled and the cursor stands after it
C17_Witness ==
    /\ Len(msgs) = 2
    /\ msgs[1].calls = 0 /\ msgs[1].audio = 1 /\ msgs[1].pc = "done"
    /\ msgs[2].calls = 1 /\ msgs[2].audio = 0 /\ ~msgs[2].intr
    /\ msgs[2].outs = <<[ok |-> FALSE, val |-> "boom"]>>
    /\ logCount["toolFailure"] = 1
    /\ errors = [k \in {"connect", "transport"} |-> 0]
    /\ status = "CONNECTED" /\ statusHist = <<"CONNECTING", "CONNECTED">>
    /\ processor = "active"
    /\ activeSources = {1} /\ chunks[1].state = "sched" /\ nextStartTime = 1

\* the chunks started for message m
ChunksOf(m) == {h \in DOMAIN chunks : chunks[h].msg = m}

\* the messages whose handleMessage call has run to its end
Handled == {m \in DOMAIN msgs : msgs[m].pc = "done"}

\* C18: every part of a message is processed, whatever the combination.  A
\* handleMessage call is only ever waiting for a tool handler or for the
\* decode; when it has run to its end every function call of the message was
\* dispatched and its handler run, the audio chunk (if any) was started on
\* the playback timeline exactly once, and the interruption (if flagged) was
\* applied: logged once, and the message's own chunk stopped with the rest.
C18_AllPartsProcessed ==
    /\ \A m \in DOMAIN msgs :
          /\ msgs[m].pc \in {"tool", "decode", "done"}
          /\ msgs[m].pc = "tool" => msgs[m].i \in 1..msgs[m].calls
          /\ msgs[m].pc = "decode" =>
                 msgs[m].audio > 0 /\ Len(msgs[m].outs) = msgs[m].calls
    /\ \A m \in Handled :
          /\ Len(msgs[m].outs) = msgs[m].calls
          /\ Cardinality(ChunksOf(m)) = (IF msgs[m].audio > 0 THEN 1 ELSE 0)
          /\ msgs[m].intr => \A h \in ChunksOf(m) : chunks[h].state = "stopped"
    /\ logCount["interrupted"] = Cardinality({m \in Handled : msgs[m].intr})
    /\ epoch = logCount["interrupted"]

\* C18 witness: one message carrying two function calls, an audio chunk and
\* the interruption flag has been handled to its end: two replies, one chunk
\* started, the interruption applied
C18_Witness ==
    /\ Len(msgs) >= 1
    /\ msgs[1].calls = 2 /\ msgs[1].audio = 1 /\ msgs[1].intr /\ msgs[1].pc = "done"
    /\ Cardinality(Replies(<<1, 1>>)) = 1 /\ Cardinality(Replies(<<1, 2>>)) = 1
    /\ ChunksOf(1) # {}
    /\ logCount["interrupted"] >= 1 /\ logCount["executing"] >= 2
    /\ activeSources \cap ChunksOf(1) = {}

\* C19: inbound messages are processed strictly in arrival order: replies are
\* sent in the order of their messages, chunks are started in the order of
\* their messages, and the handling of a message ends only after the
\* handling of every earlier message has ended.
C19_ArrivalOrder ==
    /\ \A j, k \in DOMAIN toolResponses :
          j < k => toolResponses[j].id[1] <= toolResponses[k].id[1]
    /\ \A j, k \in DOMAIN chunks : j < k => chunks[j].msg <= chunks[k].msg
    /\ \A j, k \in DOMAIN msgs : j < k /\ k \in Handled => j \in Handled

\* message m has been served but for the reply of the hung call: its other
\* calls are replied, its audio chunk is started, its interruption applied
Served(m) ==
    /\ m \in DOMAIN msgs
    /\ \A i \in 1..msgs[m].calls : <<m, i>> # <<1, 1>> => Replies(<<m, i>>) # {}
    /\ msgs[m].audio > 0 => ChunksOf(m) # {}
    /\ msgs[m].intr => m \in Handled

\* C20: a tool handler that never completes stalls only the reply of its own
\* invocation: every message received, the one holding the hung call
\* included, is eventually served in all its other parts (other calls
\* replied, audio chunk started, interruption applied).
C20_HungStallsOnlyItsReply ==
    \A m \in 1..MaxMsgs : (m \in DOMAIN msgs) ~> Served(m)

\* the promise of client.live.connect has rejected and no handler is attached
\* to it: connect() did not await it, and only the await in disconnect()
\* (line 391) would catch it
UnhandledRejection == sessionPromise = "rejected" /\ disc.pc # "awaitSess"

\* the handleMessage calls that ended by an exception thrown after an await
Threw == {m \in DOMAIN msgs : msgs[m].pc = "threw"}

\* C21: no failure of an asynchronous step escapes as an unhandled exception
\* or rejection: a rejected session promise always has a handler, and no
\* handleMessage call ends by throwing.
C21_NothingEscapes == ~UnhandledRejection /\ Threw = {}

\* the frames whose sendRealtimeInput call threw
FailedSends == {f \in DOMAIN frames : frames[f].threw}

\* C22: capture frames are handed to the session in capture order, each at
\* most once (no retry); a frame whose transmission failed does not keep any
\* later frame from being sent, and the step in which a transmission fails
\* calls no onError, reports no status and makes no log entry.
C22_FramesInOrderBestEffort ==
    /\ [](/\ \A j, k \in DOMAIN sentFrames : j < k => sentFrames[j] < sentFrames[k]
          /\ \A f \in DOMAIN frames :
                 ~frames[f].muted /\ frames[f].sp = "resolved"
                     => Cardinality(SendsOf(f)) = 1)
    /\ [][Len(frames') > Len(frames) /\ frames'[Len(frames')].threw =>
              UNCHANGED <<errors, logCount, status, statusHist, clientVars, chan>>]_vars

\* C22 witness: the transmission of the first frame failed, the second frame
\* was sent all the same, nothing was reported
C22_Witness ==
    /\ Len(frames) = 2 /\ FailedSends = {1}
    /\ sentFrames = <<1, 2>>
    /\ errors = [k \in {"connect", "transport"} |-> 0]
    /\ status = "CONNECTED" /\ statusHist = <<"CONNECTING", "CONNECTED">>

\* C23: every loudness value passed to onAudioData lies in [0,1], that is
\* between 0 and 1000 thousandths.
C23_LevelsInUnitRange ==
    \A k \in DOMAIN audioLevels :
        audioLevels[k].volume >= 0 /\ audioLevels[k].volume <= 1000

\* result r is what the reply to a handler run with outcome out carries
Carries(r, out) ==
    \/ out.ok /\ r.status = "absent" /\ r.value = out.val
    \/ ~out.ok /\ r.status = "FAILED" /\ r.error = ErrStr(out.val)

\* C24: every reply sent references an invocation that was received and
\* carries the result of that invocation's own handler run, and no two
\* replies reference the same invocation, with several invocations in one
\* message and several messages handled concurrently.
C24_RepliesMatchInvocations ==
    \A k \in DOMAIN toolResponses :
        /\ toolResponses[k].id \in Invocations
        /\ Len(msgs[toolResponses[k].id[1]].outs) >= toolResponses[k].id[2]
        /\ Carries(toolResponses[k].result, HandlerOutcome(toolResponses[k].id))
        /\ \A j \in DOMAIN toolResponses :
               j # k => toolResponses[j].id # toolResponses[k].id

\* C24 witness: two messages handled concurrently, the second answered
\* first; each reply carries its own handler's result, and they differ
C24_Witness ==
    /\ Len(toolResponses) = 2
    /\ toolResponses[1].id = <<2, 1>> /\ toolResponses[2].id = <<1, 1>>
    /\ msgs[1].outs = <<[ok |-> FALSE, val |-> "boom"]>>
    /\ msgs[2].outs = <<[ok |-> TRUE, val |-> "r"]>>
    /\ toolResponses[1].result.value = "r"
    /\ toolResponses[2].result.error = "boom"

\* C25: capture-frame delivery is not blocked by a suspended caller.  A frame
\* captured (unmuted, session there) while a tool handler is pending or
\* while disconnect() awaits the session has had its loudness reported and
\* its send made at once, without waiting for the handler; and while
\* disconnect() awaits the session the input graph is already closed, so
\* that no frame is captured then.
C25_CaptureNotBlocked ==
    /\ \A f \in DOMAIN frames :
          frames[f].during # "none" /\ ~frames[f].muted /\ frames[f].sp = "resolved" =>
              /\ Cardinality(SendsOf(f)) = 1
              /\ frames[f].rms > NoiseFloor => Cardinality(LevelsOf(f)) = 1
    /\ disc.pc = "awaitSess" => inputAudioContext = "null"

\* C25 witness: a frame was captured and sent while a tool handler was
\* pending, and the handler is pending still
C25_Witness ==
    /\ Len(frames) >= 1 /\ Len(msgs) >= 1
    /\ frames[1].during = "tool" /\ sentFrames # <<>> /\ sentFrames[1] = 1
    /\ msgs[1].pc = "tool" /\ msgs[1].i = 1
    /\ toolResponses = <<>>

\* the messages whose interruption has been processed
Interrupted == {m \in DOMAIN msgs : msgs[m].intr /\ msgs[m].pc = "done"}

\* the decodes still in flight of messages that arrived before an interruption
\* message already processed
Overtaken ==
    {m \in DOMAIN msgs : msgs[m].pc = "decode" /\ \E n \in Interrupted : n > m}

\* C26: a chunk whose message arrived before an interruption message, and whose
\* decode was still in flight when that interruption was processed, is not
\* started and not added to the active-handle set when its decode completes
C26_BufferedAudioDiscarded ==
    [][\A m \in Overtaken :
          msgs'[m].pc # "decode" =>
              /\ \A k \in DOMAIN chunks' : chunks'[k].msg = m => k \in DOMAIN chunks
              /\ activeSources' \subseteq activeSources]_vars


\* C27: chunks are scheduled on the playback timeline in the order their
\* messages arrived: of two chunks started with no interruption in between,
\* the one whose message arrived first has the earlier (or equal) scheduled
\* start, in whatever order the decodes complete.
C27_ScheduledInArrivalOrder ==
    \A j, k \in DOMAIN chunks :
        chunks[j].epoch = chunks[k].epoch /\ chunks[j].msg < chunks[k].msg
            => chunks[j].start <= chunks[k].start


\* C28: every handle in the active-handle set is a started chunk that has
\* neither ended nor been stopped (it is scheduled or sounding): handles enter
\* the set when their chunk is started, leave it in their onended callback,
\* and no ended or stopped handle remains in the set.
C28_ActiveSetLive ==
    /\ \A h \in activeSources : h \in DOMAIN chunks /\ chunks[h].state = "sched"
    /\ \A k \in DOMAIN chunks :
          chunks[k].state \in {"ended", "stopped"} => k \notin activeSources

\* C28 witness: the first chunk has played to its end and removed itself while
\* the second is still in the set
C28_Witness ==
    /\ Len(chunks) = 2
    /\ chunks[1].state = "ended"
    /\ chunks[2].state = "sched"
    /\ activeSources = {2}


\* a disconnect called while connect() was under way has returned, connect()
\* has returned and the channel it asked for has settled
BothFinished ==
    /\ disc.pc = "done" /\ disc.via # "none" /\ disc.from = "CONNECTING"
    /\ pcConnect \in {"done", "failed"}
    /\ chan \notin {"opening", "closing"}

\* C29: when disconnect() is called while connect() is suspended awaiting the
\* device or the channel, then after both have finished the state is not
\* CONNECTED, no device stream is held and no session is left open.
C29_DisconnectDuringConnect ==
    BothFinished =>
        /\ status # "CONNECTED"
        /\ stream = "null" /\ deviceTracks = 0
        /\ chan # "open" /\ sessionPromise = "null"


\* C30: after a disconnect followed by a new connect, the late close event of
\* the old session does not overwrite the status of the new session: the
\* status after the event is the status before it.
C30_OldCloseKeepsStatus ==
    [][oldChan = "closing" /\ oldChan' = "closed" => status' = status]_vars


\* the channel was closed by the remote or the transport: no disconnect() has
\* been called on the client
RemoteClosed == chan = "closed" /\ status = "DISCONNECTED" /\ discCalls = 0

\* C31: after the channel is closed by the remote or the transport, the
\* capture pipeline has stopped and the capture device is released with no
\* disconnect() call, and no further frame is handed to the closed session.
C31_CloseReleasesCapture ==
    /\ [](RemoteClosed =>
            /\ processor = "null" /\ source = "null"
            /\ stream = "null" /\ deviceTracks = 0)
    /\ [][RemoteClosed => sentFrames' = sentFrames]_vars


\* C32: at most one capture device stream is held at any time: over every
\* sequence of connect, remote close, transport error, disconnect and
\* reconnect, a new device stream is acquired only when none is held.
C32_OneCaptureStream ==
    /\ [](deviceTracks <= 1)
    /\ [][deviceTracks' > deviceTracks => deviceTracks = 0]_vars


\* a disconnect() call has completed
TornDown == disc.pc = "done" /\ disc.via # "none"

\* C33: once disconnect() has completed the active-handle set is empty and no
\* chunk is started afterwards, and a message that arrives or a decode that
\* completes during or after the teardown raises no error.
C33_NoPlaybackAfterTeardown ==
    /\ [](TornDown => activeSources = {})
    /\ [][TornDown => Len(chunks') = Len(chunks)]_vars
    /\ [][disc.pc # "idle" => Threw' \subseteq Threw]_vars


\* a pending tool handler settles in this step
HandlerSettles ==
    \E m \in DOMAIN msgs :
        msgs[m].pc = "tool" /\ Len(msgs'[m].outs) > Len(msgs[m].outs)

\* disconnect() was called on a connected session and has completed
SessionTornDown == TornDown /\ disc.from = "CONNECTED"

Dispatched == {id \in Invocations : id[2] <= msgs[id[1]].i}

\* C35: per invocation the order is log, dispatch, reply: there is exactly one
\* "executing" log entry per invocation whose handler has been called (none
\* for a call not yet dispatched), and a reply is sent for an invocation only
\* after its handler was called and has settled.
C35_LogDispatchReply ==
    /\ logCount["executing"] = Cardinality(Dispatched)
    /\ \A k \in DOMAIN toolResponses :
          /\ toolResponses[k].id \in Dispatched
          /\ Settled(toolResponses[k].id)

\* C35 witness: a message with two calls, the first replied and the second
\* dispatched and pending; a second message with one call pending
C35_Witness ==
    /\ Len(msgs) = 2
    /\ msgs[1].calls = 2 /\ msgs[1].pc = "tool" /\ msgs[1].i = 2
    /\ msgs[2].calls = 2 /\ msgs[2].pc = "tool" /\ msgs[2].i = 1
    /\ Len(toolResponses) = 1 /\ toolResponses[1].id = <<1, 1>>
    /\ logCount["executing"] = 3


\* C36: disconnect() tears the capture down before it closes the remote
\* channel, and in every case it finishes with the session handle cleared,
\* processor, source and stream null, and the active-handle set empty.
C36_DisconnectReleasesAll ==
    /\ [][chan' = "closing" /\ chan # "closing" =>
              processor = "null" /\ source = "null" /\ stream = "null"]_vars
    /\ [][DiscCompleted /\ disc'.via # "none" =>
              /\ sessionPromise' = "null"
              /\ processor' = "null" /\ source' = "null" /\ stream' = "null"
              /\ activeSources' = {}]_vars


\* the message the categories give for a thrown value, by fixed precedence
Categorized(error) ==
    IF ~error.isError THEN UnknownError
    ELSE IF "403" \in error.message.marks THEN AccessDenied
    ELSE IF "503" \in error.message.marks THEN ServiceUnavailable
    ELSE IF "Failed to fetch" \in error.message.marks THEN NetworkFailure
    ELSE error.message

\* C37: the connect-failure message is categorised by the error text with the
\* precedence 403, 503, "Failed to fetch", else the Error's own message; a
\* value that is not an Error gives the unknown-error message; the same
\* message goes to onError and into the log entry; one report per failure.
C37_FailureMessage ==
    /\ Len(reports) = errors["connect"]
    /\ \A k \in DOMAIN reports :
          /\ reports[k].onError = Categorized(thrown)
          /\ reports[k].log = <<"Connection Aborted: ", reports[k].onError>>

\* C37 witness: an Error whose message holds all three patterns has been
\* reported as access denied
C37_Witness ==
    /\ thrown.isError /\ thrown.message.marks = Patterns
    /\ Len(reports) = 1
    /\ reports[1].onError = AccessDenied
    /\ status = "ERROR"

=========================================================================
